---------------------------- MODULE Spec2Model ----------------------------
(***************************************************************************)
(* A model of ccpath: the naming-convention conversion of path components  *)
(* (src/src/convert_path.rs) and the rename orchestration of               *)
(* src/src/main.rs (upfront validation, convert_single, convert_recursive  *)
(* over a contents-first directory walk).                                  *)
(*                                                                         *)
(* Text is a sequence of one-character strings, and a path is the text it  *)
(* was made from, as in std::path::Path.  Path::components() yields texts: *)
(* RootDir is <<"/">>, CurDir is <<".">>, ParentDir is <<".", ".">> and    *)
(* every other component is a Normal file name.  The character BadByte     *)
(* stands for a byte that is not valid UTF-8 (OsStr::to_str gives None).   *)
(***************************************************************************)
EXTENDS Integers, Sequences, FiniteSets, TLC

(***************************************************************************)
(* Characters                                                              *)
(***************************************************************************)
\* The alphabet of the model.  The letters that come in pairs: the ASCII
\* letters, the letters of Latin-1 and the Greek alphabet; UpperSeq[i] is the
\* upper-case form of LowerSeq[i], and LowerSeq[i] the lower-case form of
\* UpperSeq[i]
LowerSeq == <<"a","b","c","d","e","f","g","h","i","j","k","l","m",
              "n","o","p","q","r","s","t","u","v","w","x","y","z",
              "à","á","â","ã","ä","å","æ","ç","è","é","ê","ë","ì",
              "í","î","ï","ð","ñ","ò","ó","ô","õ","ö","ø","ù","ú",
              "û","ü","ý","þ","α","β","γ","δ","ε","ζ","η","θ","ι",
              "κ","λ","μ","ν","ξ","ο","π","ρ","σ","τ","υ","φ","χ",
              "ψ","ω","ǆ">>

UpperSeq == <<"A","B","C","D","E","F","G","H","I","J","K","L","M",
              "N","O","P","Q","R","S","T","U","V","W","X","Y","Z",
              "À","Á","Â","Ã","Ä","Å","Æ","Ç","È","É","Ê","Ë","Ì",
              "Í","Î","Ï","Ð","Ñ","Ò","Ó","Ô","Õ","Ö","Ø","Ù","Ú",
              "Û","Ü","Ý","Þ","Α","Β","Γ","Δ","Ε","Ζ","Η","Θ","Ι",
              "Κ","Λ","Μ","Ν","Ξ","Ο","Π","Ρ","Σ","Τ","Υ","Φ","Χ",
              "Ψ","Ω","Ǆ">>

\* a lower-case letter whose upper-case form is two letters
SharpS == "ß"

\* an upper-case letter whose lower-case form is SharpS and does not come back
CapitalSharpS == "ẞ"

\* the lower-case sigma that ends a word: its upper-case form is CapitalSigma,
\* whose lower-case form is another letter except at the end of a word
FinalSigma == "ς"

CapitalSigma == "Σ"

\* a lower-case letter whose upper-case form is the Greek capital mu
MicroSign == "µ"

\* a title-case letter: neither lower case nor upper case, with both forms
TitleDz == "ǅ"

\* letters without case
Caseless == {"א", "ב"}

DigitSet == {"0","1","2","3","4","5","6","7","8","9"}

\* the space and the ASCII punctuation (but for the double quote and the grave
\* accent, which a string of this module cannot hold)
PunctSet == {" ","!","#","$","%","&","'","(",")","*","+",",","-",".","/",
             ":",";","<","=",">","?","@","[","\\","]","^","_","{","|","}","~"}

\* characters that do not count when the end of a word is looked for (the
\* Unicode property Case_Ignorable)
CaseIgnorable == {"'", ".", ":", "^"}

BadByte == "\\xFF"

Range(s) == { s[i] : i \in DOMAIN s }

LowerSet == Range(LowerSeq) \cup {SharpS, FinalSigma, MicroSign}

UpperSet == Range(UpperSeq) \cup {CapitalSharpS}

\* every character a text of the model may hold; the character classes and
\* the case mappings below are defined on these characters and on no other
Alphabet == LowerSet \cup UpperSet \cup {TitleDz} \cup Caseless \cup DigitSet \cup PunctSet

CharClass ==
    [c \in Alphabet |-> IF c \in LowerSet THEN "lower"
                        ELSE IF c \in UpperSet THEN "upper"
                        ELSE "other"]

\* char::is_lowercase
IsLower(c) == CharClass[c] = "lower"

\* char::is_uppercase
IsUpper(c) == CharClass[c] = "upper"

\* char::is_ascii_digit
IsDigit(c) == c \in DigitSet

\* char::is_lowercase or char::is_uppercase
IsLetter(c) == CharClass[c] # "other"

\* the Unicode property Cased: lower case, upper case or title case
IsCased(c) == IsLetter(c) \/ c = TitleDz

UpperOf == [c \in Range(LowerSeq) |-> UpperSeq[CHOOSE i \in DOMAIN LowerSeq : LowerSeq[i] = c]]

LowerOf == [c \in Range(UpperSeq) |-> LowerSeq[CHOOSE i \in DOMAIN UpperSeq : UpperSeq[i] = c]]

UpperForm ==
    [c \in Alphabet |->
        CASE c = SharpS            -> <<"S", "S">>
          [] c = FinalSigma        -> <<CapitalSigma>>
          [] c = MicroSign         -> <<"Μ">>
          [] c = TitleDz           -> <<"Ǆ">>
          [] c \in Range(LowerSeq) -> <<UpperOf[c]>>
          [] OTHER                 -> <<c>>]

LowerForm ==
    [c \in Alphabet |->
        CASE c = CapitalSharpS     -> <<SharpS>>
          [] c = TitleDz           -> <<"ǆ">>
          [] c \in Range(UpperSeq) -> <<LowerOf[c]>>
          [] OTHER                 -> <<c>>]

\* char::to_uppercase: the characters a character becomes
to_uppercase(c) == UpperForm[c]

\* char::to_lowercase
to_lowercase(c) == LowerForm[c]

\* a cased character precedes position i, with nothing but characters that do
\* not count in between
CasedBefore(w, i) ==
    \E j \in 1..(i - 1) :
        IsCased(w[j]) /\ \A k \in (j + 1)..(i - 1) : w[k] \in CaseIgnorable

CasedAfter(w, i) ==
    \E j \in (i + 1)..Len(w) :
        IsCased(w[j]) /\ \A k \in (i + 1)..(j - 1) : w[k] \in CaseIgnorable

\* a capital sigma at the end of a word becomes the final sigma
LowerAt(w, i) ==
    IF w[i] = CapitalSigma /\ CasedBefore(w, i) /\ ~CasedAfter(w, i)
    THEN <<FinalSigma>>
    ELSE to_lowercase(w[i])

\* str::to_uppercase
RECURSIVE ToUpperText(_)
ToUpperText(w) ==
    IF w = <<>> THEN <<>> ELSE to_uppercase(w[1]) \o ToUpperText(SubSeq(w, 2, Len(w)))

\* str::to_lowercase
RECURSIVE LowerFrom(_, _)
LowerFrom(w, i) ==
    IF i > Len(w) THEN <<>> ELSE LowerAt(w, i) \o LowerFrom(w, i + 1)

ToLowerText(w) == LowerFrom(w, 1)

\* first character upper-cased, the rest lower-cased
Capitalize(w) ==
    IF w = <<>> THEN <<>> ELSE to_uppercase(w[1]) \o ToLowerText(SubSeq(w, 2, Len(w)))

(***************************************************************************)
(* Sequence helpers                                                        *)
(***************************************************************************)
Last(s) == s[Len(s)]

Front(s) == SubSeq(s, 1, Len(s) - 1)

IsPrefix(p, s) == Len(p) <= Len(s) /\ SubSeq(s, 1, Len(p)) = p

IsStrictPrefix(p, s) == Len(p) < Len(s) /\ SubSeq(s, 1, Len(p)) = p

RECURSIVE JoinWith(_, _)
JoinWith(ws, sep) ==
    IF ws = <<>> THEN <<>>
    ELSE IF Len(ws) = 1 THEN ws[1]
    ELSE ws[1] \o sep \o JoinWith(Tail(ws), sep)

NonEmpty(ws) == SelectSeq(ws, LAMBDA w : w # <<>>)

\* str::split(pattern): the pieces between separator characters, empty ones kept
RECURSIVE SplitOn(_, _)
FirstSep(s, seps) ==
    CHOOSE i \in DOMAIN s : s[i] \in seps /\ \A j \in 1..(i-1) : s[j] \notin seps

SplitAt(s, k, seps) == <<SubSeq(s, 1, k - 1)>> \o SplitOn(SubSeq(s, k + 1, Len(s)), seps)

SplitOn(s, seps) ==
    IF \A i \in DOMAIN s : s[i] \notin seps THEN <<s>>
    ELSE SplitAt(s, FirstSep(s, seps), seps)

(***************************************************************************)
(* Convention and its tokens                                               *)
(***************************************************************************)
Convention == {"TitleCase", "FlatCase", "UpperFlatCase", "CamelCase",
               "UpperCamelCase", "SnakeCase", "UpperSnakeCase", "KebabCase"}

NoConvention == "None"

Ok(v) == [ok |-> TRUE, val |-> v, err |-> "none"]

Err(e) == [ok |-> FALSE, val |-> <<>>, err |-> e]

\* impl TryFrom<&str> for Convention
try_from(s) ==
    CASE s = "title" -> [ok |-> TRUE, val |-> "TitleCase", err |-> "none"]
      [] s = "flat"  -> [ok |-> TRUE, val |-> "FlatCase", err |-> "none"]
      [] s = "FLAT"  -> [ok |-> TRUE, val |-> "UpperFlatCase", err |-> "none"]
      [] s = "camel" -> [ok |-> TRUE, val |-> "CamelCase", err |-> "none"]
      [] s = "CAMEL" -> [ok |-> TRUE, val |-> "UpperCamelCase", err |-> "none"]
      [] s = "snake" -> [ok |-> TRUE, val |-> "SnakeCase", err |-> "none"]
      [] s = "SNAKE" -> [ok |-> TRUE, val |-> "UpperSnakeCase", err |-> "none"]
      [] s = "kebab" -> [ok |-> TRUE, val |-> "KebabCase", err |-> "none"]
      [] OTHER       -> [ok |-> FALSE, val |-> NoConvention, err |-> "Unsupported"]

(***************************************************************************)
(* The case-conversion primitive the converter calls (convert_case's       *)
(* Casing::to_case and Casing::from_case(..).to_case): a text is cut into  *)
(* words and the words are re-joined in the target convention.             *)
(***************************************************************************)
\* a word boundary between two adjacent characters: lower|upper, letter|digit
\* and digit|letter; punctuation and white space bound no word here
two_char_is_boundary(f, s) ==
    \/ IsLower(f) /\ IsUpper(s)
    \/ IsDigit(f) /\ IsLetter(s)
    \/ IsLetter(f) /\ IsDigit(s)

\* the end of an acronym, or a two-character boundary
three_char_is_boundary(f, s, t) ==
    \/ IsUpper(f) /\ IsUpper(s) /\ IsLower(t)
    \/ two_char_is_boundary(f, s)

\* the positions i such that a word ends at character i
camel_cuts(name) ==
    { i \in 1..(Len(name) - 1) :
        IF i + 2 <= Len(name)
        THEN three_char_is_boundary(name[i], name[i+1], name[i+2])
        ELSE two_char_is_boundary(name[i], name[i+1]) }

RECURSIVE split_at_indices(_, _, _)
NextCut(cuts, from) ==
    CHOOSE x \in cuts : x >= from /\ \A y \in cuts : y >= from => x <= y

CutAt(name, cuts, from, c) ==
    <<SubSeq(name, from, c)>> \o split_at_indices(name, cuts, c + 1)

split_at_indices(name, cuts, from) ==
    IF \A c \in cuts : c < from THEN <<SubSeq(name, from, Len(name))>>
    ELSE CutAt(name, cuts, from, NextCut(cuts, from))

split_camel(name) == split_at_indices(name, camel_cuts(name), 1)

RECURSIVE FlatMapCamel(_)
FlatMapCamel(pieces) ==
    IF pieces = <<>> THEN <<>>
    ELSE split_camel(Head(pieces)) \o FlatMapCamel(Tail(pieces))

\* Words::new: no source convention, every known boundary is used
words_new(name) == NonEmpty(FlatMapCamel(SplitOn(name, {"-", "_", " "})))

\* the stated source convention read as if it marked no boundary
words_from_casing_one_word(name, case) == <<name>>

\* Words::from_casing: only the boundaries of the stated source convention
words_from_casing(name, case) ==
    CASE case = "TitleCase" -> NonEmpty(SplitOn(name, {" "}))
      [] case = "KebabCase" -> NonEmpty(SplitOn(name, {"-"}))
      [] case \in {"SnakeCase", "UpperSnakeCase"} -> NonEmpty(SplitOn(name, {"_"}))
      [] case \in {"CamelCase", "UpperCamelCase"} -> split_camel(name)
      [] OTHER -> <<name>>

\* the capitalisation pattern of a convention, applied to word number i
case_word(w, i, case) ==
    CASE case \in {"TitleCase", "UpperCamelCase"}    -> Capitalize(w)
      [] case = "CamelCase" /\ i > 1                  -> Capitalize(w)
      [] case \in {"UpperSnakeCase", "UpperFlatCase"} -> ToUpperText(w)
      [] OTHER                                        -> ToLowerText(w)

\* the delimiter of a convention
case_delim(case) ==
    CASE case = "TitleCase"                      -> <<" ">>
      [] case \in {"SnakeCase", "UpperSnakeCase"} -> <<"_">>
      [] case = "KebabCase"                      -> <<"-">>
      [] OTHER                                   -> <<>>

\* Words::into_case: capitalisation pattern and delimiter of the target
into_case(ws, case) ==
    JoinWith([i \in DOMAIN ws |-> case_word(ws[i], i, case)], case_delim(case))

\* stem.from_case(from).to_case(to), or stem.to_case(to) without a source
convert_stem(stem, from_convention, to_convention) ==
    into_case(IF from_convention # NoConvention
              THEN words_from_casing(stem, from_convention)
              ELSE words_new(stem),
              to_convention)

(***************************************************************************)
(* std::path on Unix, as far as the converter uses it                      *)
(***************************************************************************)
RootDir == <<"/">>

CurDir == <<".">>

ParentDir == <<".", ".">>

NoText == <<"<none>">>

IsNormal(c) == c # <<>> /\ c \notin {RootDir, CurDir, ParentDir}

\* Path::components(): repeated separators and inner "." vanish, a leading
\* "." of a relative path stays
ComponentsOf(pieces, absolute) ==
    (IF absolute THEN <<RootDir>> ELSE <<>>)
    \o SelectSeq([i \in DOMAIN pieces |->
                     IF pieces[i] = CurDir /\ ~(i = 1 /\ ~absolute) THEN <<>> ELSE pieces[i]],
                 LAMBDA c : c # <<>>)

IsAbsolute(p) == p # <<>> /\ p[1] = "/"

Components(p) == ComponentsOf(SplitOn(p, {"/"}), IsAbsolute(p))

\* Path::to_str is None when a byte is not valid UTF-8
IsUtf8(text) == \A i \in DOMAIN text : text[i] # BadByte

\* where in the text a segment that begins at i ends
SegEnd(p, i) ==
    CHOOSE j \in i..Len(p) :
        /\ \A k \in i..j : p[k] # "/"
        /\ j = Len(p) \/ p[j + 1] = "/"

IsSegStart(p, i) == p[i] # "/" /\ (i = 1 \/ p[i - 1] = "/")

\* where in the text the components begin, the root at 1
CompStarts(p) ==
    { i \in DOMAIN p :
        IsSegStart(p, i) /\ ~(i > 1 /\ SubSeq(p, i, SegEnd(p, i)) = CurDir) }
    \cup (IF IsAbsolute(p) THEN {1} ELSE {})

CompEnd(p, i) == IF p[i] = "/" THEN i ELSE SegEnd(p, i)

MaxOf(S) == CHOOSE x \in S : \A y \in S : y <= x

\* the n-th smallest member
NthOf(S, n) == CHOOSE x \in S : Cardinality({ y \in S : y < x }) = n - 1

\* Path::file_name: the last component when it is a Normal one
file_name(p) == Last(Components(p))

HasFileName(p) == Components(p) # <<>> /\ IsNormal(file_name(p))

\* Path::parent: None for the empty path and for a root, else the text up to
\* the end of the last component but one
HasParent(p) == Components(p) \notin {<<>>, <<RootDir>>}

\* the text without what follows its last component: separators and "."
\* segments that are no component; a root stays
RECURSIVE TrimRight(_)
TrimRight(p) ==
    IF Len(p) > 1 /\ p[Len(p)] = "/" THEN TrimRight(Front(p))
    ELSE IF Len(p) > 1 /\ p[Len(p)] = "." /\ p[Len(p) - 1] = "/"
    THEN TrimRight(Front(p))
    ELSE p

\* the text without its last segment
RECURSIVE DropLastSegment(_)
DropLastSegment(p) ==
    IF p # <<>> /\ p[Len(p)] # "/" THEN DropLastSegment(Front(p)) ELSE p

Parent(p) == TrimRight(DropLastSegment(TrimRight(p)))

\* PathBuf::push / Path::join: an absolute argument replaces the path; else
\* the argument follows a separator, added unless the path is empty or ends
\* with one
Join(p, q) ==
    IF IsAbsolute(q) THEN q
    ELSE IF p = <<>> THEN q
    ELSE IF Last(p) = "/" THEN p \o q
    ELSE p \o <<"/">> \o q

\* a prefix test on the text of the two paths
starts_with_text(base, prefix) == IsPrefix(prefix, base)

\* Path::starts_with: whole components only
starts_with(base, prefix) == IsPrefix(Components(prefix), Components(base))

\* Path::strip_prefix: the text from the first component after the prefix to
\* the end of the last component
strip_prefix(base, prefix) ==
    IF Len(Components(prefix)) >= Len(Components(base)) THEN <<>>
    ELSE SubSeq(base, NthOf(CompStarts(base), Len(Components(prefix)) + 1),
                CompEnd(base, MaxOf(CompStarts(base))))

\* position of the last '.' of a file name, 0 when there is none
LastDot(name) ==
    IF \E i \in DOMAIN name : name[i] = "."
    THEN CHOOSE i \in DOMAIN name :
            name[i] = "." /\ \A j \in (i+1)..Len(name) : name[j] # "."
    ELSE 0

\* rsplit_file_at_dot: (before, after) around the last dot
DotBefore(name) ==
    IF name = ParentDir \/ LastDot(name) <= 1 THEN NoText
    ELSE SubSeq(name, 1, LastDot(name) - 1)

DotAfter(name) ==
    IF name = ParentDir THEN NoText
    ELSE IF LastDot(name) = 1 THEN NoText
    ELSE SubSeq(name, LastDot(name) + 1, Len(name))

\* Path::file_stem: before.or(after); a name whose only dot leads is all stem
file_stem(name) ==
    IF ~IsNormal(name) THEN NoText
    ELSE IF name = ParentDir \/ LastDot(name) = 1 THEN name
    ELSE IF LastDot(name) = 0 THEN name
    ELSE DotBefore(name)

\* Path::extension: before.and(after)
extension(name) ==
    IF ~IsNormal(name) THEN NoText
    ELSE IF LastDot(name) <= 1 THEN NoText
    ELSE DotAfter(name)

(***************************************************************************)
(* convert_path.rs                                                         *)
(***************************************************************************)
\* the whole file name converted, extension and all
convert_parts_whole_name(stem, ext, from_convention, to_convention) ==
    IF stem = NoText /\ ext = NoText THEN Err("InvalidPath")
    ELSE IF stem = NoText THEN Ok(ext)
    ELSE Ok(convert_stem(stem \o (IF ext # NoText THEN <<".">> \o ext ELSE <<>>),
                         from_convention, to_convention))

\* lines 96-125, once stem and extension are known
convert_parts(stem, ext, from_convention, to_convention) ==
    IF stem = NoText /\ ext = NoText THEN Err("InvalidPath")
    ELSE IF stem = NoText THEN Ok(ext)
    ELSE Ok(convert_stem(stem, from_convention, to_convention)
            \o (IF ext # NoText THEN <<".">> \o ext ELSE <<>>))

convert_component(component, from_convention, to_convention) ==
    IF ~IsUtf8(component) THEN Err("InvalidUtf8Path")
    ELSE convert_parts(file_stem(component), extension(component),
                       from_convention, to_convention)

\* lines 155-161: the `?`, then pop and push
replace_basename(path, base) ==
    IF ~base.ok THEN Err(base.err) ELSE Ok(Join(Parent(path), base.val))

convert_basename(path, from_convention, to_convention) ==
    IF ~HasParent(path) \/ ~HasFileName(path) THEN Ok(path)
    ELSE replace_basename(path,
                          convert_component(file_name(path), from_convention, to_convention))

RECURSIVE ConvertFullFrom(_, _, _, _)
\* lines 190-192: the `?`, then the push of the converted component
push_converted(converted_path, rest, c, from_convention, to_convention) ==
    IF ~c.ok THEN Err(c.err)
    ELSE ConvertFullFrom(Join(converted_path, c.val), Tail(rest),
                         from_convention, to_convention)

\* lines 187-196: the loop over the components not yet pushed
ConvertFullFrom(converted_path, rest, from_convention, to_convention) ==
    IF rest = <<>> THEN Ok(converted_path)
    ELSE IF IsNormal(Head(rest))
    THEN push_converted(converted_path, rest,
                        convert_component(Head(rest), from_convention, to_convention),
                        from_convention, to_convention)
    ELSE ConvertFullFrom(Join(converted_path, Head(rest)), Tail(rest),
                         from_convention, to_convention)

convert_full(path, from_convention, to_convention) ==
    ConvertFullFrom(<<>>, Components(path), from_convention, to_convention)

\* lines 251-255
rejoin_prefix(prefix, new_base) ==
    IF new_base.ok THEN Ok(Join(prefix, new_base.val)) ELSE new_base

convert_full_except_prefix(path, prefix, from_convention, to_convention) ==
    IF starts_with(path, prefix)
    THEN rejoin_prefix(prefix, convert_full(strip_prefix(path, prefix),
                                            from_convention, to_convention))
    ELSE convert_full(path, from_convention, to_convention)

(***************************************************************************)
(* The filesystem: a function from the absolute path of every entry (the   *)
(* sequence of its names below the root) to "file" or "dir".  The root     *)
(* <<>> always exists, is a directory, and is the working directory.       *)
(***************************************************************************)
NoPath == <<"<no path>">>

\* the step a trailing separator adds to the resolution of a path: what came
\* before must be a directory
TrailSep == <<>>

\* a path as the operating system reads it: the root, the segments that are
\* not empty, and a last step for a separator that ends the text
OsStepsOf(p, segs) ==
    (IF IsAbsolute(p) THEN <<RootDir>> ELSE <<>>)
    \o segs
    \o (IF segs # <<>> /\ Last(p) = "/" THEN <<TrailSep>> ELSE <<>>)

OsSteps(p) == OsStepsOf(p, NonEmpty(SplitOn(p, {"/"})))

DropTrailSep(steps) ==
    IF steps # <<>> /\ Last(steps) = TrailSep THEN Front(steps) ELSE steps

IsDirAt(tree, at) == at = <<>> \/ (at \in DOMAIN tree /\ tree[at] = "dir")

ExistsAt(tree, at) == at = <<>> \/ at \in DOMAIN tree

\* path resolution: every step but the last must lead through a directory,
\* hence what precedes a "." or a trailing separator must be one
RECURSIVE ResolveFrom(_, _, _)
ResolveFrom(tree, cur, rest) ==
    IF rest = <<>> THEN [ok |-> TRUE, at |-> cur]
    ELSE IF ~IsDirAt(tree, cur) THEN [ok |-> FALSE, at |-> cur]
    ELSE LET c == Head(rest)
             nxt == CASE c = RootDir   -> <<>>
                      [] c = CurDir    -> cur
                      [] c = TrailSep  -> cur
                      [] c = ParentDir -> IF cur = <<>> THEN <<>> ELSE Front(cur)
                      [] OTHER         -> Append(cur, c)
         IN  ResolveFrom(tree, nxt, Tail(rest))

\* the empty path names nothing (ENOENT)
Resolve(tree, path) ==
    IF path = <<>> THEN [ok |-> FALSE, at |-> <<>>]
    ELSE ResolveFrom(tree, <<>>, OsSteps(path))

\* Path::exists
Exists(tree, path) ==
    LET r == Resolve(tree, path) IN r.ok /\ ExistsAt(tree, r.at)

\* Path::is_dir
is_dir(tree, path) ==
    LET r == Resolve(tree, path) IN r.ok /\ IsDirAt(tree, r.at)

Children(tree, at) == { q \in DOMAIN tree : Len(q) = Len(at) + 1 /\ IsPrefix(at, q) }

Under(tree, at) == { q \in DOMAIN tree : IsPrefix(at, q) }

\* the tree with the subtree at s moved to d, whatever was at d replaced
MoveTree(tree, s, d) ==
    LET moved == Under(tree, s)
        gone  == moved \cup Under(tree, d)
        rest  == DOMAIN tree \ gone
        newAt(q) == d \o SubSeq(q, Len(s) + 1, Len(q))
    IN  [q \in rest \cup { newAt(m) : m \in moved } |->
            IF q \in rest THEN tree[q]
            ELSE tree[CHOOSE m \in moved : newAt(m) = q]]

\* rename(2) between two resolved places
RenameAt(tree, s, d) ==
    IF ~s.ok \/ s.at = <<>> \/ s.at \notin DOMAIN tree THEN [ok |-> FALSE, fs |-> tree]
    ELSE IF ~d.ok \/ d.at = <<>> \/ ~IsDirAt(tree, Front(d.at))
    THEN [ok |-> FALSE, fs |-> tree]
    ELSE IF s.at = d.at THEN [ok |-> TRUE, fs |-> tree]
    ELSE IF IsPrefix(s.at, d.at) THEN [ok |-> FALSE, fs |-> tree]
    ELSE IF d.at \in DOMAIN tree
            /\ \/ tree[d.at] # tree[s.at]
               \/ tree[d.at] = "dir" /\ Children(tree, d.at) # {}
    THEN [ok |-> FALSE, fs |-> tree]
    ELSE [ok |-> TRUE, fs |-> MoveTree(tree, s.at, d.at)]

\* rename(2) refuses a path whose last component is "." or ".." (EBUSY)
EndsInDots(p) ==
    DropTrailSep(OsSteps(p)) # <<>>
    /\ Last(DropTrailSep(OsSteps(p))) \in {CurDir, ParentDir}

HasTrailSep(p) == OsSteps(p) # DropTrailSep(OsSteps(p))

\* fs::rename; io_ok = FALSE is a failure of the call for a reason outside the
\* tree (permissions, a read-only or a different device).  A trailing
\* separator on either side is allowed only when the source is a directory
\* (ENOTDIR otherwise).
Rename(tree, src, dst, io_ok) ==
    IF ~io_ok THEN [ok |-> FALSE, fs |-> tree]
    ELSE IF EndsInDots(src) \/ EndsInDots(dst) THEN [ok |-> FALSE, fs |-> tree]
    ELSE IF HasTrailSep(dst) /\ ~is_dir(tree, src) THEN [ok |-> FALSE, fs |-> tree]
    ELSE RenameAt(tree, Resolve(tree, src),
                  ResolveFrom(tree, <<>>, DropTrailSep(OsSteps(dst))))

\* mkdir(2) of `last` in the resolved directory r: "NotFound" when the
\* directory is missing, "Other" when it is no directory or the name is taken
\* or is no name ("/", "." and ".." exist already)
MkdirIn(tree, r, last) ==
    IF ~(r.ok /\ IsDirAt(tree, r.at))
    THEN [kind |-> IF ExistsAt(tree, r.at) THEN "Other" ELSE "NotFound", fs |-> tree]
    ELSE IF ~IsNormal(last) \/ Append(r.at, last) \in DOMAIN tree
    THEN [kind |-> "Other", fs |-> tree]
    ELSE [kind |-> "Ok",
          fs |-> [q \in DOMAIN tree \cup {Append(r.at, last)} |->
                     IF q = Append(r.at, last) THEN "dir" ELSE tree[q]]]

MkdirSteps(tree, steps) ==
    IF steps = <<>> THEN [kind |-> "NotFound", fs |-> tree]
    ELSE MkdirIn(tree, ResolveFrom(tree, <<>>, Front(steps)), Last(steps))

\* fs::create_dir: a trailing separator does not count
Mkdir(tree, path) == MkdirSteps(tree, DropTrailSep(OsSteps(path)))

\* mkdir(2) as the environment lets it go: of the calls that would create a
\* directory, call number nth fails for a reason outside the tree
\* (permissions, no space left); nth = 0 is no such failure
MkdirEnvOf(tree, mk, nth) ==
    IF mk.kind = "Ok" /\ nth = 1 THEN [kind |-> "Other", fs |-> tree, nth |-> 0]
    ELSE [kind |-> mk.kind, fs |-> mk.fs,
          nth |-> IF mk.kind = "Ok" /\ nth > 1 THEN nth - 1 ELSE nth]

MkdirEnv(tree, path, nth) == MkdirEnvOf(tree, Mkdir(tree, path), nth)

RECURSIVE create_dir_all(_, _, _)
\* the second attempt, once the parent has been seen to
MkdirAgain(tree, path, mk) ==
    IF mk.kind = "Ok" THEN [ok |-> TRUE, fs |-> mk.fs, nth |-> mk.nth]
    ELSE [ok |-> is_dir(tree, path), fs |-> tree, nth |-> mk.nth]

\* the `?` on the parent: what was created on the way stays
AfterParent(path, up) ==
    IF ~up.ok THEN up ELSE MkdirAgain(up.fs, path, MkdirEnv(up.fs, path, up.nth))

\* the first attempt: done, or the parent is missing, or the directory is there
FirstMkdir(tree, path, mk) ==
    IF mk.kind = "Ok" THEN [ok |-> TRUE, fs |-> mk.fs, nth |-> mk.nth]
    ELSE IF mk.kind = "Other" THEN [ok |-> is_dir(tree, path), fs |-> tree, nth |-> mk.nth]
    ELSE IF ~HasParent(path) THEN [ok |-> FALSE, fs |-> tree, nth |-> mk.nth]
    ELSE AfterParent(path, create_dir_all(tree, Parent(path), mk.nth))

\* DirBuilder::create_dir_all: the empty path succeeds without a call; else
\* mkdir, and on ENOENT the parent first and mkdir again
create_dir_all(tree, path, nth) ==
    IF path = <<>> THEN [ok |-> TRUE, fs |-> tree, nth |-> nth]
    ELSE FirstMkdir(tree, path, MkdirEnv(tree, path, nth))

TreeResult(r) == [ok |-> r.ok, fs |-> r.fs]

\* fs::create_dir_all, one mkdir call per level: a failure on the way leaves
\* the directories created before it
CreateDirAll(tree, path, nth) == TreeResult(create_dir_all(tree, path, nth))

(***************************************************************************)
(* main.rs: convert_single                                                 *)
(***************************************************************************)
\* no filesystem call fails for a reason outside the tree
IoFine == [mkdir |-> 0, rename |-> TRUE]

\* a prefix taken as the choice of the full-path mode
new_path_of_prefix_first(path, from, to, is_full_path, prefix) ==
    IF prefix # NoPath THEN convert_full_except_prefix(path, prefix, from, to)
    ELSE IF is_full_path THEN convert_full(path, from, to)
    ELSE convert_basename(path, from, to)

\* lines 107-115: the destination of one path
new_path_of(path, from, to, is_full_path, prefix) ==
    IF is_full_path
    THEN IF prefix # NoPath
         THEN convert_full_except_prefix(path, prefix, from, to)
         ELSE convert_full(path, from, to)
    ELSE convert_basename(path, from, to)

\* lines 141-147: the report unwraps to_str of both paths
report_panics(path, new_path, is_verbose, is_dry_run) ==
    (is_verbose \/ is_dry_run) /\ (~IsUtf8(path) \/ ~IsUtf8(new_path))

\* mid is the filesystem as the last filesystem call of convert_single found it
Outcome(tree, res, halt, dst, event, eprinted) ==
    [fs |-> tree, res |-> res, halt |-> halt, dst |-> dst, event |-> event,
     eprinted |-> eprinted, mid |-> tree]

\* the existence test left out
skips_never(tree, new_path, no_clobber) == FALSE

\* lines 117-126: the destination exists and must not be overwritten
skips(tree, new_path, no_clobber) == Exists(tree, new_path) /\ no_clobber

\* lines 136-138: the rename itself; its failure is printed and nothing more
rename_outcome(rn, new_path, halt) ==
    Outcome(rn.fs, "Ok", halt, new_path,
            IF rn.ok THEN "renamed" ELSE "rename_failed", ~rn.ok)

rename_step(tree, path, new_path, halt, io) ==
    [rename_outcome(Rename(tree, path, new_path, io.rename), new_path, halt)
        EXCEPT !.mid = tree]

\* no directory created
mkdir_step_none(tree, new_path, io) == [ok |-> TRUE, fs |-> tree]

\* lines 128-134: a missing parent of the destination is created, ancestors too
mkdir_step(tree, new_path, io) ==
    IF HasParent(new_path) /\ ~Exists(tree, Parent(new_path))
    THEN CreateDirAll(tree, Parent(new_path), io.mkdir)
    ELSE [ok |-> TRUE, fs |-> tree]

\* lines 130-138: a failed creation ends the process, else the rename follows
after_mkdir(mk, path, new_path, halt, io) ==
    IF ~mk.ok THEN Outcome(mk.fs, "Ok", "exit4", new_path, "mkdir_failed", TRUE)
    ELSE rename_step(mk.fs, path, new_path, halt, io)

\* the dry-run test left out
apply_one_for_real(tree, path, new_path, halt, is_dry_run, no_clobber, io) ==
    IF skips(tree, new_path, no_clobber)
    THEN Outcome(tree, "Ok", "none", new_path, "skipped", FALSE)
    ELSE after_mkdir(mkdir_step(tree, new_path, io), path, new_path, halt, io)

\* lines 117-149: what happens once the destination is known
apply_one(tree, path, new_path, halt, is_dry_run, no_clobber, io) ==
    IF is_dry_run THEN Outcome(tree, "Ok", halt, new_path, "dry_run", FALSE)
    ELSE IF skips(tree, new_path, no_clobber)
    THEN Outcome(tree, "Ok", "none", new_path, "skipped", FALSE)
    ELSE after_mkdir(mkdir_step(tree, new_path, io), path, new_path, halt, io)

\* line 115: the `?` on the destination, then lines 117-149
with_new_path(tree, path, np, is_verbose, is_dry_run, no_clobber, io) ==
    IF ~np.ok THEN Outcome(tree, "Err", "none", NoPath, "convert_error", FALSE)
    ELSE apply_one(tree, path, np.val,
                   IF report_panics(path, np.val, is_verbose, is_dry_run)
                   THEN "panic" ELSE "none",
                   is_dry_run, no_clobber, io)

\* the whole of convert_single on one path; io says which call of mkdir the
\* environment fails, if any, and whether it lets the rename go through
convert_single(tree, path, from, to, is_full_path, prefix, is_verbose, is_dry_run, no_clobber, io) ==
    with_new_path(tree, path, new_path_of(path, from, to, is_full_path, prefix),
                  is_verbose, is_dry_run, no_clobber, io)

(***************************************************************************)
(* The directory walk of convert_recursive: WalkDir::new(dir) with         *)
(* contents_first(true).  A frame is a directory the walk has opened: its  *)
(* path as the walk spells it and the entries read from it that were not   *)
(* yielded yet (name and type as the directory listed them when opened).   *)
(* The order in which a directory lists its entries is not fixed.          *)
(***************************************************************************)
\* a listing that leaves the subdirectories out
ReadDir_files_only(tree, path) ==
    LET r == Resolve(tree, path)
    IN  IF r.ok /\ IsDirAt(tree, r.at)
        THEN { [name |-> Last(q), dir |-> FALSE] :
                 q \in { c \in Children(tree, r.at) : tree[c] = "file" } }
        ELSE {}

ReadDir(tree, path) ==
    LET r == Resolve(tree, path)
    IN  IF r.ok /\ IsDirAt(tree, r.at)
        THEN { [name |-> Last(q), dir |-> tree[q] = "dir"] : q \in Children(tree, r.at) }
        ELSE {}

\* the walk left in its default order, a directory before its contents
contents_first_off == FALSE

\* line 160: .contents_first(true)
contents_first == TRUE

\* a directory the walk enters; with contents_first it is yielded later, when
\* the frame is exhausted, and else at once
OpenFrame(tree, path) ==
    [path |-> path, pending |-> ReadDir(tree, path), yielded |-> ~contents_first]

\* one call of the iterator's next(): every (entry yielded, stack left) it can give
RECURSIVE WalkNext(_, _)
WalkInto(tree, left, child) ==
    IF contents_first
    THEN WalkNext(tree, Append(left, OpenFrame(tree, child)))
    ELSE { [entry |-> child, stack |-> Append(left, OpenFrame(tree, child))] }

WalkEntry(tree, left, child, e) ==
    IF e.dir THEN WalkInto(tree, left, child)
    ELSE { [entry |-> child, stack |-> left] }

WalkNext(tree, stk) ==
    IF stk = <<>> THEN {}
    ELSE IF Last(stk).pending = {}
    THEN IF Last(stk).yielded THEN WalkNext(tree, Front(stk))
         ELSE { [entry |-> Last(stk).path, stack |-> Front(stk)] }
    ELSE UNION { WalkEntry(tree,
                           [stk EXCEPT ![Len(stk)].pending = Last(stk).pending \ {e}],
                           Join(Last(stk).path, e.name), e)
                 : e \in Last(stk).pending }

(***************************************************************************)
(* Bounds and the inputs the model draws from                              *)
(***************************************************************************)
MaxPaths == 2

MaxIoFaults == 1

Absent == "<absent>"

PD == <<"P", " ", "d">>

CF == <<"C", " ", "f">>

CD == <<"C", " ", "d">>

GF == <<"G", " ", "f">>

BadDir == <<BadByte, "d">>

MkTree(dirs, files) == [q \in dirs \cup files |-> IF q \in dirs THEN "dir" ELSE "file"]

\* the tree of tests/cli.rs test_recursive
TreePlain == MkTree({<<PD>>, <<PD, CD>>}, {<<PD, CF>>, <<PD, CD, GF>>})

\* a sibling already bears the converted name (test_overwrite_no_clobber)
TreeClash == MkTree({<<PD>>, <<PD, CD>>},
                    {<<PD, CF>>, <<PD, <<"c", "_", "f">>>>, <<PD, CD, GF>>})

\* the converted parent pre-exists (test_full_with_parents_pre_exist)
TreeParent == MkTree({<<PD>>, <<PD, CD>>, <<<<"p", "_", "d">>>>},
                     {<<PD, CF>>, <<PD, CD, GF>>})

\* a directory whose name is not valid UTF-8
TreeBad == MkTree({<<PD>>, <<PD, BadDir>>}, {<<PD, CF>>, <<PD, BadDir, GF>>})

InitTrees == {TreePlain, TreeClash, TreeParent, TreeBad}

\* the last one names a file with a trailing separator, which does not exist
PathArgs == { PD, PD \o <<"/">> \o CD \o <<"/">> \o GF, <<"N", "x">>,
              PD \o <<"/">> \o CF \o <<"/">> }

PrefixArgs == { NoText, PD }

\* (--from, target) token pairs
TokenArgs == { <<Absent, "snake">>, <<"title", "camel">>,
               <<Absent, "Snake">>, <<"bogus", "snake">> }

PathLists == UNION { [1..n -> PathArgs] : n \in 1..MaxPaths }

(***************************************************************************)
(* State                                                                   *)
(***************************************************************************)
VARIABLES
    matches,     \* the parsed command line (get_matches)
    fs,          \* the filesystem
    pc,          \* "start", "loop", "walk", "done"; "pure" in the converter's own specification
    exit_code,   \* "running", "exit0", "exit1", "exit2", "exit4", "panic"
    idx,         \* position in the list of input paths
    stack,       \* the frames of the walk in progress
    visited,     \* entries the walk in progress has handed to convert_single
    walk_fs0,    \* the filesystem when the walk in progress began
    io_faults,   \* failures of filesystem calls injected so far
    log,         \* one record per call of convert_single, in order
    p_in,        \* converter specification: the arguments
    p_out        \* converter specification: the function applied and its result

vars == <<matches, fs, pc, exit_code, idx, stack, visited, walk_fs0, io_faults,
          log, p_in, p_out>>

NoPure == [fn |-> "none"]

FromConv == IF matches.from = Absent THEN NoConvention ELSE try_from(matches.from).val

ToConv == try_from(matches.into).val

PrefixPath == IF matches.prefix = NoText THEN NoPath ELSE matches.prefix

InputPath(i) == matches.paths[i]

Init ==
    /\ matches \in { [from |-> t[1], into |-> t[2], recursive |-> r, no_clobber |-> n,
                      dry_run |-> d, verbose |-> v, full_path |-> f, prefix |-> x,
                      paths |-> ps] :
                        t \in TokenArgs, r \in BOOLEAN, n \in BOOLEAN, d \in BOOLEAN,
                        v \in BOOLEAN, f \in BOOLEAN, x \in PrefixArgs, ps \in PathLists }
    /\ fs \in InitTrees
    \* --verbose changes what is printed and nothing else, but for the report of
    \* a path that is not valid UTF-8
    /\ matches.verbose => fs = TreeBad
    \* --no-clobber is read outside dry-run only (line 117)
    /\ matches.dry_run => ~matches.no_clobber
    \* the trees with a converted name in place hold the snake-case names
    /\ fs \in {TreeClash, TreeParent} => matches.into = "snake"
    /\ pc = "start"
    /\ exit_code = "running"
    /\ idx = 1
    /\ stack = <<>>
    /\ visited = {}
    /\ walk_fs0 = fs
    /\ io_faults = 0
    /\ log = <<>>
    /\ p_in = NoPure
    /\ p_out = NoPure

(***************************************************************************)
(* main.rs: main                                                           *)
(***************************************************************************)
\* only the first path looked up
first_path_exists(tree, paths) == Exists(tree, paths[1])

\* lines 203-216: every specified path is looked up before the loop starts
all_paths_exist(tree, paths) == \A i \in DOMAIN paths : Exists(tree, paths[i])

\* lines 175-223
Validate ==
    /\ pc = "start"
    /\ LET code == IF matches.from # Absent /\ ~try_from(matches.from).ok THEN "exit1"
                   ELSE IF ~try_from(matches.into).ok THEN "exit1"
                   ELSE IF ~all_paths_exist(fs, matches.paths) THEN "exit2"
                   ELSE "running"
       IN  /\ exit_code' = code
           /\ pc' = IF code = "running" THEN "loop" ELSE "done"
    /\ UNCHANGED <<matches, fs, idx, stack, visited, walk_fs0, io_faults, log, p_in, p_out>>

\* the call gets as far as a filesystem call: neither a conversion error, nor
\* a dry run, nor a skip
MakesCalls(rFine) == rFine.event \in {"renamed", "rename_failed", "mkdir_failed"}

\* a failure can be injected where a filesystem call is made
CanFail(io, rFine) == io # IoFine /\ io_faults < MaxIoFaults /\ MakesCalls(rFine)

\* an injected failure counts only when it changes what the call does
IoChoice(io, r, rFine) ==
    \/ io = IoFine
    \/ CanFail(io, rFine) /\ r # rFine

\* the destination exists before the call, as another entry than the source
Collides(tree, src, dst) ==
    dst # NoPath /\ Exists(tree, dst) /\ Resolve(tree, dst).at # Resolve(tree, src).at

\* the directory a destination lies in exists (the working directory for a
\* destination of one relative component)
ParentReady(tree, dst) ==
    LET r == ResolveFrom(tree, <<>>, OsSteps(Parent(dst))) IN r.ok /\ IsDirAt(tree, r.at)

\* the source is there for the rename to take
SourceThere(tree, src) ==
    LET r == Resolve(tree, src) IN r.ok /\ r.at # <<>> /\ r.at \in DOMAIN tree

LogRecord(path, r, in_walk) ==
    [src |-> path, dst |-> r.dst, event |-> r.event, res |-> r.res,
     eprinted |-> r.eprinted, halt |-> r.halt, walk |-> in_walk, arg |-> idx,
     collided |-> Collides(fs, path, r.dst),
     parent_before |-> ParentReady(fs, r.dst),
     parent_ready |-> ParentReady(r.mid, r.dst),
     src_there |-> SourceThere(r.mid, path)]

HaltCode(halt) == IF halt = "exit4" THEN "exit4" ELSE "panic"

\* the main loop is over when the last path has been dealt with: main returns
AfterPath(next) ==
    /\ idx' = next
    /\ pc' = IF next > Len(matches.paths) THEN "done" ELSE "loop"
    /\ exit_code' = IF next > Len(matches.paths) THEN "exit0" ELSE "running"

\* create_dir_all makes no more creating mkdir calls than the parent of a
\* destination has components
MkdirFaults == 0 .. MaxOf({ Len(Components(Parent(p))) : p \in PathArgs })

\* which call of mkdir the environment fails (0: none) and whether it lets
\* the rename go through
IoChoices == [mkdir : MkdirFaults, rename : BOOLEAN]

\* lines 236-245: the call of convert_single on input path number idx
SingleCall(io) ==
    convert_single(fs, InputPath(idx), FromConv, ToConv, matches.full_path, PrefixPath,
                   matches.verbose, matches.dry_run, matches.no_clobber, io)

\* what main does with the outcome r: a halt ends the process, anything else
\* (the dropped Result included) goes on to the next path
SingleDone(r, io) ==
    /\ io_faults' = IF io = IoFine THEN io_faults ELSE io_faults + 1
    /\ fs' = r.fs
    /\ log' = Append(log, LogRecord(InputPath(idx), r, FALSE))
    /\ IF r.halt # "none"
       THEN /\ pc' = "done"
            /\ exit_code' = HaltCode(r.halt)
            /\ idx' = idx
       ELSE AfterPath(idx + 1)

\* lines 225-226 and 235-246: a path that is not walked; the Result is dropped
MainSingle ==
    /\ pc = "loop"
    /\ ~(is_dir(fs, InputPath(idx)) /\ matches.recursive)
    /\ \E fine \in {SingleCall(IoFine)}, io \in IoChoices :
         \E r \in {IF CanFail(io, fine) THEN SingleCall(io) ELSE fine} :
             /\ IoChoice(io, r, fine)
             /\ SingleDone(r, io)
    /\ UNCHANGED <<matches, stack, visited, walk_fs0, p_in, p_out>>

\* lines 226-234 and 160: a directory under --recursive starts a walk
MainRecursive ==
    /\ pc = "loop"
    /\ is_dir(fs, InputPath(idx)) /\ matches.recursive
    /\ pc' = "walk"
    /\ stack' = <<OpenFrame(fs, InputPath(idx))>>
    /\ visited' = {}
    /\ walk_fs0' = fs
    /\ UNCHANGED <<matches, fs, exit_code, idx, io_faults, log, p_in, p_out>>

\* where the entries already handed over are after a rename from s to d
MoveVisited(seen, s, d) ==
    { IF IsPrefix(s, q) THEN d \o SubSeq(q, Len(s) + 1, Len(q)) ELSE q :
        q \in { v \in seen : IsPrefix(s, v) \/ ~IsPrefix(d, v) } }

\* lines 164-166: the call of convert_single on an entry of the walk
WalkCall(entry, io) ==
    convert_single(fs, entry, FromConv, ToConv, FALSE, NoPath,
                   matches.verbose, matches.dry_run, matches.no_clobber, io)

\* the entries handed over so far, after the call on the entry at `at`
VisitedAfter(r, at) ==
    IF r.event = "renamed"
    THEN MoveVisited(visited \cup {at}, at, Resolve(fs, r.dst).at)
    ELSE visited \cup {at}

\* an Err leaves the walk at once (the `?` of line 166), a halt ends the process
WalkDone(w, r, io) ==
    /\ io_faults' = IF io = IoFine THEN io_faults ELSE io_faults + 1
    /\ fs' = r.fs
    /\ log' = Append(log, LogRecord(w.entry, r, TRUE))
    /\ visited' = VisitedAfter(r, Resolve(fs, w.entry).at)
    /\ IF r.halt # "none"
       THEN /\ pc' = "done"
            /\ exit_code' = HaltCode(r.halt)
            /\ idx' = idx
            /\ stack' = w.stack
       ELSE IF r.res = "Err"
       THEN /\ AfterPath(idx + 1)
            /\ stack' = <<>>
       ELSE /\ UNCHANGED <<pc, exit_code, idx>>
            /\ stack' = w.stack

\* lines 160-168: the next entry of the walk goes through convert_single with
\* basename semantics
WalkStep ==
    /\ pc = "walk"
    /\ stack # <<>>
    /\ \E w \in WalkNext(fs, stack) :
         \E fine \in {WalkCall(w.entry, IoFine)}, io \in IoChoices :
             \E r \in {IF CanFail(io, fine) THEN WalkCall(w.entry, io) ELSE fine} :
                 /\ IoChoice(io, r, fine)
                 /\ WalkDone(w, r, io)
    /\ UNCHANGED <<matches, walk_fs0, p_in, p_out>>

\* lines 160 and 170: the walk is exhausted, convert_recursive returns Ok
WalkEnd ==
    /\ pc = "walk"
    /\ stack = <<>>
    /\ AfterPath(idx + 1)
    /\ UNCHANGED <<matches, fs, stack, visited, walk_fs0, io_faults, log, p_in, p_out>>

Next == Validate \/ MainSingle \/ MainRecursive \/ WalkStep \/ WalkEnd

Spec == Init /\ [][Next]_vars

(***************************************************************************)
(* The converter on its own: the arguments are drawn at the start and one  *)
(* of the functions of convert_path.rs is applied to them.                 *)
(***************************************************************************)
\* path texts: relative and absolute, a root, "..", a trailing "..", a
\* leading ".", repeated and trailing separators, one segment, segments whose
\* stem is nothing but a delimiter, the empty path, a byte that is not UTF-8,
\* digits next to punctuation and to white space, letters beyond ASCII
PurePaths ==
    { <<"A"," ","b","/","c","D","/","e","-","f",".","J","p">>,
      <<"/","A"," ","b","/","c","_","d">>,
      <<"/">>,
      <<".",".">>,
      <<"A"," ","b","/",".",".">>,
      <<".","/","A"," ","b">>,
      <<"a","/","/","b","/",".","/","c","D","/">>,
      <<"A"," ","b">>,
      <<"a","/","_","/","b">>,
      <<>>,
      <<"a","/","_">>,
      <<"A"," ","b","/",BadByte,"c","/","d">>,
      <<"a","/",".","_">>,
      <<"A"," ","b","/",".","g","I">>,
      <<"c","D",".","e",".","F","g">>,
      <<"a","1","!","b"," ","2">>,
      <<"é","B","/","S","t","r","a",SharpS,"e">> }

PurePrefixes ==
    { <<"A"," ","b">>, <<"/","A"," ","b">>, <<"A">>, <<>>, <<"a">>, <<"a","/","_">> }

PureInputs ==
    [path : PurePaths, prefix : PurePrefixes,
     from : Convention \cup {NoConvention}, to : Convention]

NoMatches ==
    [from |-> Absent, into |-> Absent, recursive |-> FALSE, no_clobber |-> FALSE,
     dry_run |-> FALSE, verbose |-> FALSE, full_path |-> FALSE, prefix |-> NoText,
     paths |-> <<>>]

InitPure ==
    /\ p_in \in PureInputs
    /\ p_out = NoPure
    /\ pc = "pure"
    /\ matches = NoMatches
    /\ fs = MkTree({}, {})
    /\ exit_code = "running"
    /\ idx = 1
    /\ stack = <<>>
    /\ visited = {}
    /\ walk_fs0 = fs
    /\ io_faults = 0
    /\ log = <<>>

PurePath == p_in.path

PurePrefix == p_in.prefix

PureComponents == Components(p_in.path)

PureResult(fn, arg, res) == [fn |-> fn, arg |-> arg, res |-> res]

ApplyComponent ==
    /\ pc = "pure" /\ p_out = NoPure
    /\ \E i \in DOMAIN PureComponents :
          p_out' = PureResult("convert_component", PureComponents[i],
                              convert_component(PureComponents[i], p_in.from, p_in.to))
    /\ UNCHANGED <<matches, fs, pc, exit_code, idx, stack, visited, walk_fs0,
                   io_faults, log, p_in>>

ApplyBasename ==
    /\ pc = "pure" /\ p_out = NoPure
    /\ p_out' = PureResult("convert_basename", PurePath,
                           convert_basename(PurePath, p_in.from, p_in.to))
    /\ UNCHANGED <<matches, fs, pc, exit_code, idx, stack, visited, walk_fs0,
                   io_faults, log, p_in>>

ApplyFull ==
    /\ pc = "pure" /\ p_out = NoPure
    /\ p_out' = PureResult("convert_full", PurePath,
                           convert_full(PurePath, p_in.from, p_in.to))
    /\ UNCHANGED <<matches, fs, pc, exit_code, idx, stack, visited, walk_fs0,
                   io_faults, log, p_in>>

ApplyFullExceptPrefix ==
    /\ pc = "pure" /\ p_out = NoPure
    /\ p_out' = PureResult("convert_full_except_prefix", PurePath,
                           convert_full_except_prefix(PurePath, PurePrefix,
                                                      p_in.from, p_in.to))
    /\ UNCHANGED <<matches, fs, pc, exit_code, idx, stack, visited, walk_fs0,
                   io_faults, log, p_in>>

NextPure == ApplyComponent \/ ApplyBasename \/ ApplyFull \/ ApplyFullExceptPrefix

SpecPure == InitPure /\ [][NextPure]_vars

(***************************************************************************)
(* Properties of the rename orchestration (specification Spec)             *)
(***************************************************************************)
\* C1: during a recursive walk a directory is handed to the rename step only
\* after everything below it: at every moment of the walk, every entry of
\* the filesystem that lies below an already processed directory has been
\* processed itself.
C1_ContentsBeforeDirectory ==
    pc = "walk" =>
        \A d \in visited : \A q \in DOMAIN fs : IsStrictPrefix(d, q) => q \in visited

\* a walk has processed and renamed a directory that has entries in it
C1_Witness ==
    /\ pc = "walk"
    /\ \E d \in visited :
          /\ d \in DOMAIN fs /\ fs[d] = "dir" /\ d \notin DOMAIN walk_fs0
          /\ Children(fs, d) # {}

\* C2: under no-clobber and outside dry-run, a call of the single-entry
\* rename whose computed destination exists when the call is made leaves the
\* filesystem as it was and returns success, without ending the run.
C2_NoClobberSkips ==
    [][ ( /\ Len(log') = Len(log) + 1
          /\ matches.no_clobber /\ ~matches.dry_run
          /\ Last(log').dst # NoPath
          /\ Exists(fs, Last(log').dst) )
        => ( /\ fs' = fs
             /\ Last(log').event = "skipped"
             /\ Last(log').res = "Ok"
             /\ Last(log').halt = "none"
             /\ exit_code' \in {"running", "exit0"} ) ]_vars

\* a call was skipped because another entry bears the converted name
C2_Witness ==
    /\ log # <<>>
    /\ Last(log).event = "skipped"
    /\ Last(log).collided
    /\ matches.no_clobber /\ ~matches.dry_run

\* C3: in dry-run mode no step of the run changes the filesystem, so the
\* filesystem after the run equals the filesystem before it.
C3_DryRunMutatesNothing == [][ matches.dry_run => fs' = fs ]_vars

\* a dry run ended normally after a walk that planned a change of name
C3_Witness ==
    /\ matches.dry_run
    /\ pc = "done" /\ exit_code = "exit0"
    /\ \E i \in DOMAIN log :
          log[i].walk /\ log[i].event = "dry_run" /\ log[i].dst # log[i].src

\* C4: an unrecognised convention token, or an input path that does not
\* exist (at any position of the list), ends the invocation at validation with
\* a failure status, before any rename or directory creation: the step from
\* the start ends the run with the filesystem untouched and no call of the
\* rename step made, and a run that has ended takes no further step.
C4_ValidationBeforeMutation ==
    [][ /\ pc # "done"
        /\ ( ( /\ pc = "start"
               /\ \/ matches.from # Absent /\ ~try_from(matches.from).ok
                  \/ ~try_from(matches.into).ok
                  \/ \E i \in DOMAIN matches.paths : ~Exists(fs, InputPath(i)) )
             => ( /\ pc' = "done"
                  /\ exit_code' \in {"exit1", "exit2"}
                  /\ fs' = fs
                  /\ log' = log ) ) ]_vars

\* the run was refused for its second path, the first one existing
C4_Witness ==
    /\ pc = "done" /\ exit_code = "exit2"
    /\ Len(matches.paths) >= 2
    /\ Exists(fs, InputPath(1))
    /\ ~Exists(fs, InputPath(2))
    /\ log = <<>>

\* C5 as stated: a failure of the rename call or of the creation of the
\* parent directory is printed for that path and never ends the processing.
C5_IoFailureNeverStops ==
    \A i \in DOMAIN log :
        log[i].event \in {"rename_failed", "mkdir_failed"}
            => log[i].eprinted /\ log[i].halt = "none"

\* C6 as stated: a conversion error on an entry is reported and does not end
\* the walk, which goes on with the next entry.
C6_ConversionErrorGoesOn ==
    /\ \A i \in DOMAIN log : log[i].event = "convert_error" => log[i].eprinted
    /\ (log # <<>> /\ Last(log).walk /\ Last(log).event = "convert_error")
          => pc = "walk"

\* C7: when a recursive rename (not a dry run) completes with no failure, no
\* skip and no collision, the tree is the tree the walk started from with
\* every entry at and below the walked directory under its converted name:
\* same entries, same kinds, same parent/child structure, and no entry left
\* under a path whose name the conversion changes.
WalkRoot == Resolve(walk_fs0, InputPath(idx)).at

SegmentImage(name) == convert_component(name, FromConv, ToConv).val

ImageOf(q) ==
    IF WalkRoot # <<>> /\ IsPrefix(WalkRoot, q)
    THEN Front(WalkRoot)
         \o [i \in 1..(Len(q) - Len(WalkRoot) + 1) |->
                SegmentImage(q[Len(WalkRoot) - 1 + i])]
    ELSE q

CleanWalk ==
    /\ pc = "walk" /\ stack = <<>>
    /\ \A i \in DOMAIN log :
          (log[i].walk /\ log[i].arg = idx)
              => log[i].event = "renamed" /\ ~log[i].collided

C7_TreeIsomorphicAfterWalk ==
    CleanWalk =>
        /\ DOMAIN fs = { ImageOf(q) : q \in DOMAIN walk_fs0 }
        /\ \A q \in DOMAIN walk_fs0 : fs[ImageOf(q)] = walk_fs0[q]
        /\ \A q, r \in DOMAIN walk_fs0 :
              /\ ImageOf(q) = ImageOf(r) => q = r
              /\ IsPrefix(q, r) <=> IsPrefix(ImageOf(q), ImageOf(r))
        /\ \A q \in DOMAIN walk_fs0 : ImageOf(q) # q => q \notin DOMAIN fs

\* a clean walk over a directory, a subdirectory and their files is over and
\* the names have changed
C7_Witness ==
    /\ CleanWalk
    /\ Cardinality(Under(walk_fs0, WalkRoot)) >= 4
    /\ \A q \in Under(walk_fs0, WalkRoot) : q \notin DOMAIN fs

(***************************************************************************)
(* Properties of the converter (specification SpecPure)                    *)
(***************************************************************************)
\* C8 as stated: convert_basename changes the final segment only: for a path
\* with at least one parent segment the parent of the output is the parent
\* of the input, and a path with no parent or no final file name (a root, a
\* path ending in "..") comes back unchanged and without error.
C8_BasenameKeepsParent ==
    p_out.fn = "convert_basename" =>
        /\ (~HasParent(p_out.arg) \/ ~HasFileName(p_out.arg))
              => p_out.res = Ok(p_out.arg)
        /\ ( /\ HasParent(p_out.arg) /\ HasFileName(p_out.arg)
             /\ Len(Components(p_out.arg)) >= 2
             /\ p_out.res.ok )
              => Parent(p_out.res.val) = Parent(p_out.arg)

\* C9 as stated: convert_full gives a path with as many segments as its
\* input, in the same order, each named segment being the conversion of the
\* segment at its place and each structural one (root, ".", "..") unchanged.
C9_FullKeepsSegments ==
    (p_out.fn = "convert_full" /\ p_out.res.ok) =>
        /\ Len(Components(p_out.res.val)) = Len(Components(p_out.arg))
        /\ \A i \in DOMAIN Components(p_out.arg) :
              i \in DOMAIN Components(p_out.res.val) =>
                 Components(p_out.res.val)[i] =
                    IF IsNormal(Components(p_out.arg)[i])
                    THEN convert_component(Components(p_out.arg)[i],
                                           p_in.from, p_in.to).val
                    ELSE Components(p_out.arg)[i]

\* C10: when the prefix is a leading run of whole segments of the path, the
\* output of convert_full_except_prefix is the prefix, untouched, joined with
\* the full conversion of the segments after it (or that conversion's error);
\* otherwise, a prefix that merely begins the text of a segment included, it
\* is the full conversion of the whole path.
C10_PrefixKeptRestConverted ==
    p_out.fn = "convert_full_except_prefix" =>
        IF /\ Len(Components(PurePrefix)) <= Len(PureComponents)
           /\ \A i \in DOMAIN Components(PurePrefix) :
                 PureComponents[i] = Components(PurePrefix)[i]
        THEN LET inner == convert_full(strip_prefix(PurePath, PurePrefix),
                                       p_in.from, p_in.to)
             IN  IF inner.ok
                 THEN /\ p_out.res.ok
                      /\ p_out.res.val = Join(PurePrefix, inner.val)
                      /\ IsPrefix(PurePrefix, p_out.res.val)
                      /\ IsPrefix(Components(PurePrefix),
                                  Components(p_out.res.val))
                 ELSE ~p_out.res.ok /\ p_out.res.err = inner.err
        ELSE p_out.res = convert_full(PurePath, p_in.from, p_in.to)

\* a prefix of whole segments was kept and a segment after it was converted
C10_Witness ==
    /\ p_out.fn = "convert_full_except_prefix"
    /\ PurePrefix # <<>>
    /\ IsStrictPrefix(Components(PurePrefix), PureComponents)
    /\ p_out.res.ok
    /\ IsPrefix(Components(PurePrefix), Components(p_out.res.val))
    /\ Components(p_out.res.val) # PureComponents
    /\ PurePrefix # ToLowerText(PurePrefix)

\* C11: for a file name with a stem and an extension (a dot that is not the
\* first character) convert_component returns the converted stem, a dot and
\* the extension exactly as it was in the input, whatever the target
\* convention; for a file name without extension it returns the converted
\* stem alone.
C11_ExtensionKept ==
    (p_out.fn = "convert_component" /\ IsNormal(p_out.arg) /\ IsUtf8(p_out.arg)) =>
        /\ p_out.res.ok
        /\ p_out.res.val =
              IF LastDot(p_out.arg) > 1
              THEN convert_stem(SubSeq(p_out.arg, 1, LastDot(p_out.arg) - 1),
                                p_in.from, p_in.to)
                   \o SubSeq(p_out.arg, LastDot(p_out.arg), Len(p_out.arg))
              ELSE convert_stem(p_out.arg, p_in.from, p_in.to)

\* a name with upper-case letters in its extension went to snake case: the
\* stem changed, the extension did not
C11_Witness ==
    /\ p_out.fn = "convert_component"
    /\ p_in.to = "SnakeCase"
    /\ LastDot(p_out.arg) > 1
    /\ p_out.res.ok
    /\ p_out.res.val # p_out.arg
    /\ ToLowerText(p_out.arg) # p_out.arg
    /\ SubSeq(p_out.res.val, Len(p_out.res.val) - 2, Len(p_out.res.val)) # ToLowerText(SubSeq(p_out.arg, Len(p_out.arg) - 2, Len(p_out.arg)))

\* C12 as stated: a file name that is a dot followed by text without a further
\* dot (".gitignore") is returned verbatim by convert_component, whatever the
\* target convention.
C12_DotFileVerbatim ==
    ( /\ p_out.fn = "convert_component"
      /\ IsNormal(p_out.arg) /\ IsUtf8(p_out.arg)
      /\ LastDot(p_out.arg) = 1 /\ Len(p_out.arg) > 1 )
        => p_out.res = Ok(p_out.arg)

(***************************************************************************)
(* A conversion and the conversion back (specification SpecTrip): a stem   *)
(* is written in the source convention from a sequence of words, converted *)
(* to the target with the source named, and converted back with the        *)
(* target named as the source.                                             *)
(***************************************************************************)
MaxWords == 2

\* words of letters, in lower case: ASCII and Latin-1 letters, a word that
\* begins and one that ends with the letter whose upper-case form is two
\* letters, a word that ends with the final sigma, a word of letters without case
TripWords == { <<"a">>, <<"b", "c">>, <<"é", "b">>, <<SharpS, "e">>, <<"e", SharpS>>,
               <<"ο", FinalSigma>>, <<"א", "ב">> }

TripInputs ==
    [words : UNION { [1..n -> TripWords] : n \in 1..MaxWords },
     from : Convention, to : Convention]

InitTrip ==
    /\ p_in \in TripInputs
    /\ p_out = NoPure
    /\ pc = "trip"
    /\ matches = NoMatches
    /\ fs = MkTree({}, {})
    /\ exit_code = "running"
    /\ idx = 1
    /\ stack = <<>>
    /\ visited = {}
    /\ walk_fs0 = fs
    /\ io_faults = 0
    /\ log = <<>>

\* the stem the words make in the source convention
TripStem == into_case(p_in.words, p_in.from)

TripForward ==
    /\ pc = "trip" /\ p_out = NoPure
    /\ p_out' = PureResult("forward", TripStem,
                           convert_component(TripStem, p_in.from, p_in.to))
    /\ UNCHANGED <<matches, fs, pc, exit_code, idx, stack, visited, walk_fs0,
                   io_faults, log, p_in>>

TripBack ==
    /\ pc = "trip" /\ p_out.fn = "forward" /\ p_out.res.ok
    /\ p_out' = PureResult("back", p_out.res.val,
                           convert_component(p_out.res.val, p_in.to, p_in.from))
    /\ UNCHANGED <<matches, fs, pc, exit_code, idx, stack, visited, walk_fs0,
                   io_faults, log, p_in>>

NextTrip == TripForward \/ TripBack

SpecTrip == InitTrip /\ [][NextTrip]_vars

\* the words of a text read in a convention, letter case aside
WordsRead(text, case) ==
    [i \in DOMAIN words_from_casing(text, case) |->
        ToLowerText(words_from_casing(text, case)[i])]

\* C13 as stated: for every pair of conventions, the conversion back gives a
\* stem whose words, read in the source convention, are the original words.
C13_RoundTripAllPairs ==
    p_out.fn = "back" =>
        /\ p_out.res.ok
        /\ WordsRead(p_out.res.val, p_in.from) = p_in.words

\* the conversion back gave the original word sequence
RoundTripHolds ==
    /\ p_out.res.ok
    /\ WordsRead(p_out.res.val, p_in.from) = p_in.words

\* the words as a convention writes them
WrittenIn(case) == [i \in DOMAIN p_in.words |-> case_word(p_in.words[i], i, case)]

\* the places of a camel or CAMEL stem where one word ends and the next one
\* begins
JunctionsIn(case) ==
    { Len(JoinWith(SubSeq(WrittenIn(case), 1, i), <<>>)) : i \in 1..(Len(p_in.words) - 1) }

\* a lower-case letter before an upper-case letter, or an upper-case letter
\* before an upper-case letter and a lower-case letter, at place k of a stem
ShowsJunction(stem, k) ==
    \/ IsLower(stem[k]) /\ IsUpper(stem[k + 1])
    \/ /\ k + 2 <= Len(stem)
       /\ IsUpper(stem[k]) /\ IsUpper(stem[k + 1]) /\ IsLower(stem[k + 2])

\* a convention marks the junctions of the words at hand: title, snake, SNAKE
\* and kebab by their delimiter; flat and FLAT when there is one word only;
\* camel and CAMEL when the letter case shows every junction and nothing else
MarksJunctions(case) ==
    CASE case \in {"FlatCase", "UpperFlatCase"} -> Len(p_in.words) = 1
      [] case \in {"CamelCase", "UpperCamelCase"} ->
            { k \in 1..(Len(into_case(p_in.words, case)) - 1) :
                ShowsJunction(into_case(p_in.words, case), k) } = JunctionsIn(case)
      [] OTHER -> TRUE

\* a word in the letter case of the source convention, of the target and of
\* the source again
ThereAndBack(i) ==
    case_word(case_word(case_word(p_in.words[i], i, p_in.from), i, p_in.to), i, p_in.from)

\* no word loses a letter to the changes of letter case
CaseComesBack ==
    \A i \in DOMAIN p_in.words : ToLowerText(ThereAndBack(i)) = p_in.words[i]

\* C13, amended: for words of letters, the conversion to the target and back
\* gives the original word sequence exactly when both conventions mark the
\* junctions of the words (title, snake, SNAKE and kebab always; flat and FLAT
\* for a single word only; camel and CAMEL when, in the stem as they write it,
\* every junction of two words and no other place shows a lower-case letter
\* before an upper-case letter, or an upper-case letter before an upper-case
\* and a lower-case letter) and every word is what lower-casing gives once the
\* word has been put in the letter case of the source convention, of the
\* target and of the source again.
C13_RoundTripKeptBoundaries ==
    p_out.fn = "back" =>
        (RoundTripHolds <=>
            /\ MarksJunctions(p_in.from)
            /\ MarksJunctions(p_in.to)
            /\ CaseComesBack)

\* two words, the first of one letter, went from snake case to CAMEL and back,
\* the acronym rule showing where the second word begins
C13_Witness ==
    /\ p_out.fn = "back"
    /\ p_in.from = "SnakeCase" /\ p_in.to = "UpperCamelCase"
    /\ p_in.words = << <<"a">>, <<"b", "c">> >>
    /\ p_out.arg = <<"A", "B", "c">>
    /\ RoundTripHolds
    /\ p_out.res.val = TripStem

\* C14: whenever a call of convert_single gets as far as the rename (no dry
\* run, no skip), the directory the destination lies in exists at the moment
\* of the rename call: a missing parent, missing ancestors included, has been
\* created before.
C14_ParentExistsAtRename ==
    \A i \in DOMAIN log :
        log[i].event \in {"renamed", "rename_failed"} => log[i].parent_ready

\* a rename went into a directory two levels of which did not exist before
\* the call
C14_Witness ==
    \E i \in DOMAIN log :
        /\ log[i].event = "renamed"
        /\ ~log[i].parent_before
        /\ log[i].parent_ready
        /\ Len(Components(log[i].dst)) = 3
        /\ Len(log) = 1 /\ pc # "walk"
        /\ ~Exists(walk_fs0, Parent(Parent(log[i].dst)))
        /\ Exists(fs, log[i].dst)

\* C15: a directory given as an input path without --recursive and without
\* --full-path has its own final segment converted and nothing else: the
\* destination is the path with its last segment converted, whatever --prefix
\* says; when the rename takes place every entry below the directory is found
\* under the new name with its own name and kind unchanged, and everything
\* elsewhere stays; when it does not, the filesystem is as it was.
DirAt == Resolve(fs, InputPath(idx)).at

DirGoal == Front(DirAt) \o <<SegmentImage(Last(DirAt))>>

MovedTo(q) == DirGoal \o SubSeq(q, Len(DirAt) + 1, Len(q))

C15_DirectoryAloneRenamed ==
    [][ ( /\ pc = "loop"
          /\ ~matches.recursive /\ ~matches.full_path
          /\ is_dir(fs, InputPath(idx))
          /\ Len(log') = Len(log) + 1 )
        => /\ Last(log').dst
                = Join(Parent(InputPath(idx)), SegmentImage(file_name(InputPath(idx))))
           /\ IF Last(log').event = "renamed"
              THEN /\ \A q \in Under(fs, DirAt) :
                         /\ MovedTo(q) \in DOMAIN fs'
                         /\ fs'[MovedTo(q)] = fs[q]
                         /\ DirGoal # DirAt => q \notin DOMAIN fs'
                   /\ \A q \in DOMAIN fs' :
                         IF IsPrefix(DirGoal, q)
                         THEN \E o \in Under(fs, DirAt) : q = MovedTo(o)
                         ELSE q \in DOMAIN fs /\ fs'[q] = fs[q]
                   /\ \A q \in DOMAIN fs :
                         (~IsPrefix(DirAt, q) /\ ~IsPrefix(DirGoal, q))
                            => q \in DOMAIN fs'
              ELSE fs' = fs ]_vars

\* a directory was renamed with a prefix supplied and no mode flag: its
\* subdirectory and the file in it are under the new name, names unchanged
C15_Witness ==
    /\ log # <<>>
    /\ ~Last(log).walk
    /\ Last(log).event = "renamed"
    /\ ~matches.recursive /\ ~matches.full_path
    /\ matches.prefix # NoText
    /\ Last(log).src = PD
    /\ Last(log).dst # Last(log).src
    /\ <<Last(log).dst, CD, GF>> \in DOMAIN fs
    /\ <<PD, CD, GF>> \notin DOMAIN fs

\* C16 as stated: whenever the invocation attempts a rename, the source path
\* of that rename exists in the filesystem the call is made on, lists of input
\* paths one of which lies below another included.
C16_SourceExistsAtRename ==
    \A i \in DOMAIN log :
        log[i].event \in {"renamed", "rename_failed"} => log[i].src_there

=============================================================================
